---- MODULE Spec2Model ----
(***************************************************************************)
(* A model of main.py: the resumable bucket scan (get_images), the         *)
(* per-family decision of main and the base-image synthesis                *)
(* (upscale_image).  Object keys are sequences of one-character strings so *)
(* that the filename functions are computed as the code computes them.     *)
(***************************************************************************)
EXTENDS Integers, Sequences, FiniteSets, TLC

(***************************************************************************)
(* Bounds of the model.                                                    *)
(***************************************************************************)
\* get_images' batch_size (5000 in the source), scaled down
BatchSize == 2
\* the most keys one list_objects page holds (1000 in S3), scaled down
PageSize == 2
\* the number of times the program is started
MaxRuns == 2

\* how many objects another client deletes
MaxDeletes == 1

(***************************************************************************)
(* Constants of the program.                                               *)
(***************************************************************************)
MinLongEdge == 600
GoodLongEdge == 2560
UpscaleFactor == 2

(***************************************************************************)
(* Strings.                                                                *)
(***************************************************************************)
\* the characters the keys use, in byte order
Alphabet ==
  <<" ", "-", ".", "/", "0", "1", "2", "3", "4", "5", "6", "7", "8", "9",
    "E", "G", "J", "P",
    "a", "b", "c", "d", "e", "g", "j", "m", "n", "o", "p", "t", "u", "x">>

\* the rank of each character in byte order
Ranks ==
  [c \in {Alphabet[i] : i \in 1..Len(Alphabet)} |->
     CHOOSE i \in 1..Len(Alphabet) : Alphabet[i] = c]

Ord(c) == Ranks[c]

Digits == {"0", "1", "2", "3", "4", "5", "6", "7", "8", "9"}

DigitVal(c) == Ord(c) - Ord("0")

MinOf(a, b) == IF a < b THEN a ELSE b

MaxOf(a, b) == IF a > b THEN a ELSE b

\* s < t in the store's (byte-wise lexical) order of keys
LexLess(s, t) ==
  \E i \in 1..(MinOf(Len(s), Len(t)) + 1) :
    /\ \A j \in 1..(i - 1) : s[j] = t[j]
    /\ \/ i > Len(s) /\ i <= Len(t)
       \/ i <= Len(s) /\ i <= Len(t) /\ Ord(s[i]) < Ord(t[i])

\* the positions of character c in s
Positions(s, c) == {i \in 1..Len(s) : s[i] = c}

SetMax(S) == CHOOSE m \in S : \A n \in S : n <= m

SetMin(S) == CHOOSE m \in S : \A n \in S : m <= n

\* s.endswith(suf)
EndsWith(s, suf) ==
  /\ Len(suf) <= Len(s)
  /\ SubSeq(s, Len(s) - Len(suf) + 1, Len(s)) = suf

\* sub in s
Contains(s, sub) ==
  \E i \in 1..(Len(s) - Len(sub) + 1) : SubSeq(s, i, i + Len(sub) - 1) = sub

\* the lower-case letter of each upper-case letter the keys use
LowerOf == ("E" :> "e") @@ ("G" :> "g") @@ ("J" :> "j") @@ ("P" :> "p")

\* s.lower()
Lower(s) ==
  [i \in 1..Len(s) |-> IF s[i] \in DOMAIN LowerOf THEN LowerOf[s[i]] ELSE s[i]]

\* s.strip()
Strip(s) ==
  LET keep == {i \in 1..Len(s) : s[i] # " "}
  IN  IF keep = {} THEN <<>> ELSE SubSeq(s, SetMin(keep), SetMax(keep))

\* s.rsplit(c, 1)[0]
RSplitHead(s, c) ==
  IF Positions(s, c) = {} THEN s ELSE SubSeq(s, 1, SetMax(Positions(s, c)) - 1)

\* s.rsplit(c, 1)[-1]
RSplitLast(s, c) ==
  IF Positions(s, c) = {} THEN s
  ELSE SubSeq(s, SetMax(Positions(s, c)) + 1, Len(s))

get_basename(filename) == RSplitHead(filename, "-")

ExtJpg == <<".", "j", "p", "g">>

ExtJpeg == <<".", "j", "p", "e", "g">>

ExtJPG == <<".", "J", "P", "G">>

ExtJPEG == <<".", "J", "P", "E", "G">>

\* re.sub(r'\.(jpg|jpeg|JPG|JPEG)$', '', s)
StripImageExt(s) ==
  IF EndsWith(s, ExtJpg) \/ EndsWith(s, ExtJPG)
  THEN SubSeq(s, 1, Len(s) - Len(ExtJpg))
  ELSE IF EndsWith(s, ExtJpeg) \/ EndsWith(s, ExtJPEG)
  THEN SubSeq(s, 1, Len(s) - Len(ExtJpeg))
  ELSE s

\* whether int(s) succeeds: int() ignores surrounding white space
IsInt(s) == Strip(s) # <<>> /\ \A i \in 1..Len(Strip(s)) : Strip(s)[i] \in Digits

RECURSIVE DecVal(_)
DecVal(s) ==
  IF s = <<>> THEN 0
  ELSE 10 * DecVal(SubSeq(s, 1, Len(s) - 1)) + DigitVal(s[Len(s)])

IntOf(s) == DecVal(Strip(s))

\* width * height of the filename's size suffix, 0 on ValueError
get_image_area(image) ==
  LET size_info == StripImageExt(RSplitLast(image, "-"))
      xs        == Positions(size_info, "x")
      left      == SubSeq(size_info, 1, SetMin(xs) - 1)
      right     == SubSeq(size_info, SetMin(xs) + 1, Len(size_info))
  IN  IF Cardinality(xs) = 1 /\ IsInt(left) /\ IsInt(right)
      THEN IntOf(left) * IntOf(right)
      ELSE 0

\* os.path.splitext(p)[1]
SplitExt(p) ==
  LET name == RSplitLast(p, "/")
      dots == Positions(name, ".")
      lead == {i \in 1..Len(name) : \A j \in 1..i : name[j] = "."}
  IN  IF dots \ lead = {} THEN <<>>
      ELSE SubSeq(name, SetMax(dots), Len(name))

\* os.path.dirname(p)
Dirname(p) ==
  IF Positions(p, "/") = {} THEN <<>>
  ELSE SubSeq(p, 1, SetMax(Positions(p, "/")) - 1)

\* any(ext in key.lower() for ext in ['.jpg', '.jpeg'])
IsImageKey(key) == Contains(Lower(key), ExtJpg) \/ Contains(Lower(key), ExtJpeg)

(***************************************************************************)
(* The bucket.                                                             *)
(***************************************************************************)
K_c1 == <<"c", "-", "1", "x", "1", ".", "j", "p", "g">>

K_c == <<"c", ".", "j", "p", "g">>

K_a1 == <<"u", "/", "a", "-", "1", "x", "1", ".", "j", "p", "g">>

K_a2 == <<"u", "/", "a", "-", "2", "x", "2", ".", "j", "p", "g">>

K_a == <<"u", "/", "a", ".", "j", "p", "g">>

K_b1 == <<"u", "/", "b", "-", "1", "x", "1", ".", "j", "p", "g">>

K_b1s == <<"u", "/", "b", "-", "1", "x", "1", ".", "j", "p", "g", " ">>

K_b == <<"u", "/", "b", ".", "j", "p", "g">>

K_cat1 ==
  <<"c", "a", "t", "-", "1", "0", "0", "x", "1", "0", "0", ".", "j", "p", "g">>

K_cat3 ==
  <<"c", "a", "t", "-", "3", "0", "0", "x", "2", "0", "0", ".", "j", "p", "g">>

K_cat == <<"c", "a", "t", ".", "j", "p", "g">>

K_dog5 == <<"d", "o", "g", "-", "5", "0", "x", "5", "0", ".", "j", "p", "g">>

K_dog == <<"d", "o", "g", ".", "j", "p", "g">>

K_dU == <<"u", "/", "d", "-", "1", "x", "1", ".", "J", "P", "G">>

K_dM == <<"u", "/", "d", "-", "2", "x", "3", ".", "J", "p", "g">>

K_d == <<"u", "/", "d", ".", "J", "P", "G">>

K_m12 ==
  <<"u", "/", "m", "-", "n", "-", "1", "x", "2", ".", "j", "p", "e", "g">>

K_m14 == <<"u", "/", "m", "-", "n", "-", "1", "x", "4", ".", "j", "p", "g">>

K_m22 == <<"u", "/", "m", "-", "n", "-", "2", "x", "2", ".", "j", "p", "g">>

K_m == <<"u", "/", "m", "-", "n", ".", "j", "p", "g">>

K_me == <<"u", "/", "m", "-", "n", ".", "j", "p", "e", "g">>

K_e7 ==
  <<"u", "/", "e", "-", "7", "0", "0", "x", "7", "0", "0", ".", "j", "p", "g">>

K_e8 ==
  <<"u", "/", "e", "-", "8", "0", "0", "x", "8", "0", "0", ".", "j", "p", "g">>

K_e == <<"u", "/", "e", ".", "j", "p", "g">>

Universe ==
  {K_c1, K_c, K_a1, K_a2, K_a, K_b1, K_b1s, K_b,
   K_cat1, K_cat3, K_cat, K_dog5, K_dog,
   K_dU, K_dM, K_d, K_m12, K_m14, K_m22, K_m, K_me,
   K_e7, K_e8, K_e}

Absent == [kind |-> "absent", w |-> 0, h |-> 0]

Corrupt == [kind |-> "corrupt", w |-> 0, h |-> 0]

Img(w, h) == [kind |-> "img", w |-> w, h |-> h]

\* what each key may hold when the program is first started
InitialObjects(k) ==
  IF k = K_c1 THEN {Absent, Img(700, 700)}
  ELSE IF k = K_a1 THEN {Img(361, 601), Img(300, 600)}
  ELSE IF k = K_a2 THEN {Absent, Img(2000, 2000)}
  ELSE IF k = K_a
  THEN {Absent, Corrupt, Img(1000, 1000), Img(2560, 600), Img(2560, 1300)}
  ELSE IF k = K_b1 THEN {Img(600, 300), Corrupt}
  ELSE IF k = K_b1s THEN {Absent, Img(50, 50)}
  ELSE {Absent}

\* a bucket without objects
EmptyStore == [k \in Universe |-> Absent]

\* the buckets of keys u/a-*, u/b-* and c-*, their images of any of the sizes
\* of InitialObjects
MixedStores ==
  {(K_c1 :> c1) @@ (K_a1 :> a1) @@ (K_a2 :> a2) @@ (K_a :> a) @@ (K_b1 :> b1)
     @@ (K_b1s :> b1s) @@ EmptyStore :
   c1 \in InitialObjects(K_c1), a1 \in InitialObjects(K_a1),
   a2 \in InitialObjects(K_a2), a \in InitialObjects(K_a),
   b1 \in InitialObjects(K_b1), b1s \in InitialObjects(K_b1s)}

\* three images at the root of the bucket, each of the size its name gives
CatDogStore ==
  (K_cat1 :> Img(100, 100)) @@ (K_cat3 :> Img(300, 200))
    @@ (K_dog5 :> Img(50, 50)) @@ EmptyStore

\* thumbnails whose names end in .JPG, .Jpg, .jpeg and .jpg, two of them of
\* the same area
NamesStores ==
  {(K_dU :> dU) @@ (K_dM :> Img(50, 50)) @@ (K_m12 :> Img(50, 50))
     @@ (K_m14 :> Img(50, 50)) @@ (K_m22 :> Img(50, 50)) @@ EmptyStore :
   dU \in {Absent, Img(50, 50)}}

\* a family of two images, each of the size its name gives, after another key
SplitStore ==
  (K_dU :> Img(50, 50)) @@ (K_e7 :> Img(700, 700)) @@ (K_e8 :> Img(800, 800))
    @@ EmptyStore

\* the buckets the program is first started on
InitialStores ==
  MixedStores \cup {CatDogStore, SplitStore, EmptyStore} \cup NamesStores

\* no key, and the content of no file
NoKey == <<>>

VARIABLES
  store,        \* the bucket: key -> object
  cursorFile,   \* the content of last_key.txt, NoKey when there is no file
  files,        \* the transient local files
  creds,        \* whether the store client finds credentials
  runs,         \* how often the program was started
  pc,           \* where the program is
  response,     \* get_images: the listing page at hand
  file_keys,    \* get_images: the keys accumulated
  images,       \* main: the batch at hand
  images_data,  \* main: the families of the batch, in insertion order
  fam,          \* main: the index of the family at hand
  src,          \* upscale_image: src_image
  dst,          \* upscale_image: base_image_name
  size,         \* upscale_image: the decoded source's <<width, height>>
  ex_size,      \* upscale_image: the decoded existing base's <<width, height>>
  outcome,      \* how the last upscale_image call ended
  why,          \* how the last get_images call ended
  credFailed,   \* a store operation of this run raised NoCredentialsError
  writes,       \* the writes of last_key.txt by the get_images call at hand
  handed,       \* the keys main's family loop has taken up in this scan
  bucket0,      \* the keys of the bucket when the program was first started
  pub,          \* the <<variants, base_image_name>> whose upload succeeded
  trail,        \* upscale_image: what the call at hand has done, in order
  origin,       \* the <<base_image_name, src_image>> of the last upload of
                \* each base in this scan
  deletes       \* the objects another client of the bucket has deleted

vars ==
  <<store, cursorFile, files, creds, runs, pc, response, file_keys, images,
    images_data, fam, src, dst, size, ex_size, outcome, why, credFailed,
    writes, handed, bucket0, pub, trail, origin, deletes>>

Present(k) == store[k].kind # "absent"

RECURSIVE SortKeys(_)
SortKeys(S) ==
  IF S = {} THEN <<>>
  ELSE LET m == CHOOSE k \in S : \A j \in S \ {k} : LexLess(k, j)
       IN  <<m>> \o SortKeys(S \ {m})

\* every key, in the store's order
SortedUniverse == SortKeys(Universe)

\* the keys a listing with this Marker has to report, in the store's order
KeysAfter(marker) ==
  SelectSeq(SortedUniverse,
            LAMBDA k : Present(k) /\ (marker = NoKey \/ LexLess(marker, k)))

NoResponse == [keys |-> <<>>, truncated |-> FALSE, contents |-> FALSE]

\* s3.list_objects(Bucket, Marker): the pages the store may answer with, a
\* page holding 1..PageSize keys.  A listing with no key left is answered
\* without 'Contents' by the store client, or with an empty list by a store
\* that sends one: both are kept.
ListObjects(marker) ==
  LET rest == KeysAfter(marker)
  IN  IF rest = <<>>
      THEN {[keys |-> <<>>, truncated |-> FALSE, contents |-> c] : c \in BOOLEAN}
      ELSE {[keys |-> SubSeq(rest, 1, n), truncated |-> n < Len(rest),
             contents |-> TRUE] : n \in 1..MinOf(PageSize, Len(rest))}

Last(s) == s[Len(s)]

\* line 46: the Marker get_images resumes from
ResumeMarker(text) == Strip(text)

\* a get_images that goes on listing until the batch exceeds batch_size
BatchReached_Strict(n) == n > BatchSize

\* line 61: the batch is large enough to be returned
BatchReached(n) == n >= BatchSize

\* a get_images that persists the first key of the batch
NewCursor_First(keys) == keys[1]

\* lines 64 and 79: what get_images writes to last_key.txt
NewCursor(keys) == Last(keys)

Running == pc \notin {"idle", "done", "failed"}

Init ==
  /\ store \in InitialStores
  /\ cursorFile = NoKey
  /\ files = {}
  /\ creds = TRUE
  /\ runs = 0
  /\ pc = "idle"
  /\ response = NoResponse
  /\ file_keys = <<>>
  /\ images = <<>>
  /\ images_data = <<>>
  /\ fam = 0
  /\ src = NoKey
  /\ dst = NoKey
  /\ size = <<0, 0>>
  /\ ex_size = <<0, 0>>
  /\ outcome = "none"
  /\ why = "none"
  /\ credFailed = FALSE
  /\ writes = 0
  /\ handed = {}
  /\ bucket0 = {k \in Universe : Present(k)}
  /\ pub = {}
  /\ trail = <<>>
  /\ origin = {}
  /\ deletes = 0

\* the variables a process loses when it ends
ResetLocals ==
  /\ response' = NoResponse
  /\ file_keys' = <<>>
  /\ images' = <<>>
  /\ images_data' = <<>>
  /\ fam' = 0
  /\ src' = NoKey
  /\ dst' = NoKey
  /\ size' = <<0, 0>>
  /\ ex_size' = <<0, 0>>
  /\ trail' = <<>>

\* python main.py
StartRun ==
  /\ ~Running
  /\ runs < MaxRuns
  /\ runs' = runs + 1
  /\ pc' = "get_images"
  /\ creds' \in BOOLEAN
  /\ credFailed' = FALSE
  /\ outcome' = "none"
  /\ why' = "none"
  /\ writes' = 0
  /\ ResetLocals
  /\ UNCHANGED <<store, cursorFile, files, handed, bucket0, pub, origin,
                 deletes>>

\* the process is killed
Crash ==
  /\ Running
  /\ pc' = "idle"
  /\ ResetLocals
  /\ creds' = TRUE
  /\ outcome' = "none"
  /\ why' = "none"
  /\ credFailed' = FALSE
  /\ writes' = 0
  /\ UNCHANGED <<store, cursorFile, files, runs, handed, bucket0, pub, origin,
                 deletes>>

\* the client's credentials go away while the program runs
LoseCredentials ==
  /\ Running
  /\ creds
  /\ creds' = FALSE
  /\ UNCHANGED <<store, cursorFile, files, runs, pc, response, file_keys,
                 images, images_data, fam, src, dst, size, ex_size, outcome,
                 why, credFailed, writes, handed, bucket0, pub, trail, origin,
                 deletes>>

\* get_images, lines 43-54 and the handler of lines 87-89
GetImagesStart ==
  /\ pc = "get_images"
  /\ LET last_key == ResumeMarker(cursorFile)
     IN  /\ handed' = IF last_key = NoKey THEN {} ELSE handed
         /\ origin' = IF last_key = NoKey THEN {} ELSE origin
         /\ writes' = 0
         /\ file_keys' = <<>>
         /\ IF creds
            THEN /\ response' \in ListObjects(last_key)
                 /\ pc' = "while_response"
                 /\ UNCHANGED <<images, why, credFailed>>
            ELSE /\ response' = NoResponse
                 /\ images' = <<>>
                 /\ why' = "no_credentials"
                 /\ credFailed' = TRUE
                 /\ pc' = "finished"
  /\ UNCHANGED <<store, cursorFile, files, creds, runs, images_data, fam, src,
                 dst, size, ex_size, outcome, bucket0, pub, trail, deletes>>

\* get_images, one round of the loop of lines 57-73, and lines 76-89
GetImagesLoop ==
  /\ pc = "while_response"
  /\ IF ~response.contents
     THEN \* response['Contents'] raises KeyError, which nothing catches
          /\ pc' = "failed"
          /\ why' = "key_error"
          /\ UNCHANGED <<response, file_keys, images, cursorFile, writes,
                         credFailed>>
     ELSE LET keys == file_keys \o response.keys
          IN  IF BatchReached(Len(keys)) \/ (~response.truncated /\ keys # <<>>)
              THEN /\ cursorFile' = NewCursor(keys)
                   /\ writes' = writes + 1
                   /\ file_keys' = keys
                   /\ images' = keys
                   /\ why' = "batch"
                   /\ pc' = "group"
                   /\ UNCHANGED <<response, credFailed>>
              ELSE IF response.truncated
              THEN /\ file_keys' = keys
                   /\ IF creds
                      THEN /\ response' \in ListObjects(Last(keys))
                           /\ pc' = "while_response"
                           /\ UNCHANGED <<images, why, credFailed>>
                      ELSE /\ response' = NoResponse
                           /\ images' = <<>>
                           /\ why' = "no_credentials"
                           /\ credFailed' = TRUE
                           /\ pc' = "finished"
                   /\ UNCHANGED <<cursorFile, writes>>
              ELSE /\ file_keys' = keys
                   /\ response' = NoResponse
                   /\ images' = <<>>
                   /\ why' = "exhausted"
                   /\ pc' = "finished"
                   /\ UNCHANGED <<cursorFile, writes, credFailed>>
  /\ UNCHANGED <<store, files, creds, runs, images_data, fam, src, dst, size,
                 ex_size, outcome, handed, bucket0, pub, trail, origin,
                 deletes>>

(***************************************************************************)
(* main: the families of a batch.                                          *)
(***************************************************************************)
\* lines 185-189: key joins the family of its base name, a new family last
AddKey(data, key) ==
  LET basename == get_basename(key)
      at       == {i \in 1..Len(data) : data[i].base = basename}
  IN  IF at # {}
      THEN [data EXCEPT ![SetMin(at)].variants = Append(@, key)]
      ELSE Append(data, [base |-> basename, variants |-> <<key>>])

\* lines 181-189
RECURSIVE GroupFrom(_, _, _)
GroupFrom(keys, i, data) ==
  IF i > Len(keys) THEN data
  ELSE GroupFrom(keys, i + 1,
                 IF IsImageKey(keys[i]) THEN AddKey(data, keys[i]) ELSE data)

GroupKeys(keys) == GroupFrom(keys, 1, <<>>)

Range(s) == {s[i] : i \in 1..Len(s)}

\* max(xs, key=get_image_area): the first of the largest
LargestFile(xs) ==
  xs[SetMin({i \in 1..Len(xs) :
               \A j \in 1..Len(xs) : get_image_area(xs[j]) <= get_image_area(xs[i])})]

\* line 192
VariantsWithoutBase(f) ==
  SelectSeq(f.variants, LAMBDA x : get_basename(x) = f.base)

\* lines 195-197
BaseImageName(f) == f.base \o SplitExt(LargestFile(VariantsWithoutBase(f)))

\* a main without the area test of line 203
CallsUpscale_AnyArea(f) ==
  /\ VariantsWithoutBase(f) # <<>>
  /\ BaseImageName(f) \notin Range(f.variants)

\* lines 193-203: whether main calls upscale_image for family f
CallsUpscale(f) ==
  /\ VariantsWithoutBase(f) # <<>>
  /\ BaseImageName(f) \notin Range(f.variants)
  /\ get_image_area(LargestFile(VariantsWithoutBase(f))) # 0

(***************************************************************************)
(* upscale_image.                                                          *)
(***************************************************************************)
\* line 117: file_name
SrcFile(k) == <<"tmp", RSplitLast(k, "/")>>

\* line 136: temp_file_name
TempFile == <<"tmp", <<"u", "u", "i", "d", ".", "j", "p", "g">>>>

\* line 155: the upscaled image is saved under base_image_name
UpscaledFile(k) == <<"cwd", k>>

\* a gate without the test of the longer edge
Eligible_AnyEdge(w, h) ==
  /\ 2 * w > h
  /\ w < 2 * h

\* a gate that lets the aspect ratio 0.5 pass
Eligible_NonStrict(w, h) ==
  /\ MaxOf(w, h) >= MinLongEdge
  /\ 2 * w >= h
  /\ w < 2 * h

\* line 131: aspect_ratio = width / height lies in (0.5, 2)
Eligible(w, h) ==
  /\ MaxOf(w, h) >= MinLongEdge
  /\ 2 * w > h
  /\ w < 2 * h

\* a resize that leaves the upscale factor out
NewSize_Unscaled(w, h) == <<w, h>>

\* line 132
NewSize(w, h) == <<w * UpscaleFactor, h * UpscaleFactor>>

\* a guard that compares the areas the wrong way round
ExistingSufficient_Reversed(ex_w, ex_h, w, h) ==
  \/ ex_w * ex_h < w * h
  \/ /\ ex_w >= GoodLongEdge \/ ex_h >= GoodLongEdge
     /\ 2 * ex_w > ex_h \/ ex_w <= 2 * ex_h

\* line 148: the existing base is bigger or big enough
ExistingSufficient(ex_w, ex_h, w, h) ==
  \/ ex_w * ex_h > w * h
  \/ /\ ex_w >= GoodLongEdge \/ ex_h >= GoodLongEdge
     /\ 2 * ex_w > ex_h \/ ex_w <= 2 * ex_h

Family == images_data[fam]

\* the variables of main and get_images that upscale_image leaves alone
UpscaleFrame ==
  UNCHANGED <<cursorFile, creds, runs, response, file_keys, images,
              images_data, fam, src, dst, why, writes, handed, bucket0>>

\* a main without the handler of line 207: the exception ends the program
Raised_Uncaught(noCredentials) ==
  /\ outcome' = "error"
  /\ credFailed' = (credFailed \/ noCredentials)
  /\ pc' = "failed"

\* an exception leaves upscale_image and is caught at line 207
Raised(noCredentials) ==
  /\ outcome' = "error"
  /\ credFailed' = (credFailed \/ noCredentials)
  /\ pc' = "family_end"

\* an upscale_image that raises where it should return
Returned_Raises(how) ==
  /\ outcome' = "error"
  /\ pc' = "family_end"
  /\ UNCHANGED credFailed

\* upscale_image returns
Returned(how) ==
  /\ outcome' = how
  /\ pc' = "family_end"
  /\ UNCHANGED credFailed

\* lines 153-155, then on to the upload of line 158
SaveUpscaled ==
  IF Dirname(dst) = <<>>
  THEN \* os.makedirs('') raises FileNotFoundError
       /\ files' = files \ {SrcFile(src)}
       /\ Raised(FALSE)
  ELSE /\ files' = files \cup {UpscaledFile(dst)}
       /\ outcome' = outcome
       /\ pc' = "upload"
       /\ UNCHANGED credFailed

\* lines 180-189, get_images having returned a batch
Group ==
  /\ pc = "group"
  /\ response' = NoResponse
  /\ file_keys' = <<>>
  /\ images_data' = GroupKeys(images)
  /\ IF images_data' = <<>>
     THEN fam' = 0 /\ pc' = "get_images"
     ELSE fam' = 1 /\ pc' = "family"
  /\ UNCHANGED <<store, cursorFile, files, creds, runs, images, src, dst,
                 size, ex_size, outcome, why, credFailed, writes, handed,
                 bucket0, pub, trail, origin, deletes>>

\* lines 191-206: one family of the batch, up to the call of upscale_image
FamilyStep ==
  /\ pc = "family"
  /\ handed' = handed \cup Range(Family.variants)
  /\ size' = <<0, 0>>
  /\ ex_size' = <<0, 0>>
  /\ trail' = <<>>
  /\ IF CallsUpscale(Family)
     THEN /\ src' = LargestFile(VariantsWithoutBase(Family))
          /\ dst' = BaseImageName(Family)
          /\ outcome' = "running"
          /\ pc' = "head_src"
     ELSE /\ src' = NoKey
          /\ dst' = NoKey
          /\ outcome' = "no_call"
          /\ pc' = "family_end"
  /\ UNCHANGED <<store, cursorFile, files, creds, runs, response, file_keys,
                 images, images_data, fam, why, credFailed, writes, bucket0,
                 pub, origin, deletes>>

\* line 118: object_exists(src_image)
HeadSrc ==
  /\ pc = "head_src"
  /\ IF ~creds THEN Raised(TRUE)
     ELSE IF Present(src)
     THEN pc' = "download_src" /\ UNCHANGED <<outcome, credFailed>>
     ELSE Returned("src_missing")
  /\ trail' = IF creds /\ Present(src) THEN Append(trail, "exists") ELSE trail
  /\ UNCHANGED <<store, files, size, ex_size, pub, origin, deletes>>
  /\ UpscaleFrame

\* line 119, then lines 126-133 and 161-171: the download, the decoding and
\* the eligibility gate
DownloadSrc ==
  /\ pc = "download_src"
  /\ IF ~creds
     THEN Raised(TRUE) /\ UNCHANGED <<files, size, trail>>
     ELSE IF ~Present(src)
     THEN \* download_file raises ClientError: the object has gone since line 118
          Raised(FALSE) /\ UNCHANGED <<files, size, trail>>
     ELSE IF store[src].kind = "corrupt"
     THEN /\ Returned("corrupt")
          /\ trail' = Append(trail, "downloaded")
          /\ UNCHANGED <<files, size>>
     ELSE /\ size' = <<store[src].w, store[src].h>>
          /\ IF Eligible(store[src].w, store[src].h)
             THEN /\ files' = files \cup {SrcFile(src)}
                  /\ trail' = trail \o <<"downloaded", "decoded", "eligible">>
                  /\ pc' = "head_dst"
                  /\ UNCHANGED <<outcome, credFailed>>
             ELSE /\ Returned("gate_failed")
                  /\ trail' = trail \o <<"downloaded", "decoded">>
                  /\ UNCHANGED files
  /\ UNCHANGED <<store, ex_size, pub, origin, deletes>>
  /\ UpscaleFrame

\* line 135: object_exists(base_image_name); without a base, lines 153-155
HeadDst ==
  /\ pc = "head_dst"
  /\ IF ~creds
     THEN files' = files \ {SrcFile(src)} /\ Raised(TRUE)
     ELSE IF Present(dst)
     THEN pc' = "download_dst" /\ UNCHANGED <<files, outcome, credFailed>>
     ELSE SaveUpscaled
  /\ trail' = IF ~creds THEN trail
              ELSE Append(trail, IF Present(dst) THEN "base_exists" ELSE "no_base")
  /\ UNCHANGED <<store, size, ex_size, pub, origin, deletes>>
  /\ UpscaleFrame

\* lines 137-150: the existing base is downloaded and measured; when it does
\* not suffice, lines 153-155
DownloadDst ==
  /\ pc = "download_dst"
  /\ IF ~creds
     THEN /\ files' = files \ {SrcFile(src)}
          /\ Raised(TRUE)
          /\ UNCHANGED ex_size
     ELSE IF store[dst].kind = "corrupt"
     THEN \* Image.open raises at line 138: line 144 is not reached
          /\ files' = (files \ {SrcFile(src)}) \cup {TempFile}
          /\ Returned("base_corrupt")
          /\ UNCHANGED ex_size
     ELSE /\ ex_size' = <<store[dst].w, store[dst].h>>
          /\ IF ExistingSufficient(store[dst].w, store[dst].h, size[1], size[2])
             THEN /\ files' = files \ {SrcFile(src)}
                  /\ Returned("base_sufficient")
             ELSE SaveUpscaled
  /\ trail' = IF ~creds \/ store[dst].kind = "corrupt" THEN trail
              ELSE Append(trail, IF ExistingSufficient(store[dst].w, store[dst].h,
                                                       size[1], size[2])
                                 THEN "base_sufficient" ELSE "base_insufficient")
  /\ UNCHANGED <<store, size, pub, origin, deletes>>
  /\ UpscaleFrame

\* lines 158-160 and 169-171
Upload ==
  /\ pc = "upload"
  /\ IF ~creds
     THEN /\ files' = files \ {SrcFile(src)}
          /\ Raised(TRUE)
          /\ UNCHANGED <<store, pub, trail, origin>>
     ELSE /\ store' = [store EXCEPT ![dst] =
                         Img(NewSize(size[1], size[2])[1], NewSize(size[1], size[2])[2])]
          /\ files' = files \ {UpscaledFile(dst), SrcFile(src)}
          /\ pub' = pub \cup {<<Family.variants, dst>>}
          /\ origin' = {o \in origin : o[1] # dst} \cup {<<dst, src>>}
          /\ trail' = Append(trail, "uploaded")
          /\ Returned("uploaded")
  /\ UNCHANGED <<size, ex_size, deletes>>
  /\ UpscaleFrame

\* line 210, and line 212 after the last family
FamilyEnd ==
  /\ pc = "family_end"
  /\ IF fam < Len(images_data)
     THEN fam' = fam + 1 /\ pc' = "family"
     ELSE fam' = fam /\ pc' = "get_images"
  /\ src' = NoKey
  /\ dst' = NoKey
  /\ size' = <<0, 0>>
  /\ ex_size' = <<0, 0>>
  /\ trail' = <<>>
  /\ outcome' = "none"
  /\ UNCHANGED <<store, cursorFile, files, creds, runs, response, file_keys,
                 images, images_data, why, credFailed, writes, handed,
                 bucket0, pub, origin, deletes>>

\* lines 214-215: os.remove("last_key.txt")
Finished ==
  /\ pc = "finished"
  /\ IF cursorFile # NoKey
     THEN cursorFile' = NoKey /\ pc' = "done"
     ELSE UNCHANGED cursorFile /\ pc' = "failed"
  /\ UNCHANGED <<store, files, creds, runs, response, file_keys, images,
                 images_data, fam, src, dst, size, ex_size, outcome, why,
                 credFailed, writes, handed, bucket0, pub, trail, origin,
                 deletes>>

Next ==
  \/ StartRun
  \/ Crash
  \/ LoseCredentials
  \/ GetImagesStart
  \/ GetImagesLoop
  \/ Group
  \/ FamilyStep
  \/ HeadSrc
  \/ DownloadSrc
  \/ HeadDst
  \/ DownloadDst
  \/ Upload
  \/ FamilyEnd
  \/ Finished

Spec == Init /\ [][Next]_vars

\* another client of the bucket deletes the object upscale_image is about to
\* fetch, before line 118 or between lines 118 and 119
ExternalDelete ==
  /\ pc \in {"head_src", "download_src"}
  /\ deletes < MaxDeletes
  /\ Present(src)
  /\ store' = [store EXCEPT ![src] = Absent]
  /\ deletes' = deletes + 1
  /\ UNCHANGED <<cursorFile, files, creds, runs, pc, response, file_keys,
                 images, images_data, fam, src, dst, size, ex_size, outcome,
                 why, credFailed, writes, handed, bucket0, pub, trail, origin>>

NextRace ==
  \/ Next
  \/ ExternalDelete

\* the buckets of u/a-* and u/b-* alone
RaceStores ==
  {s \in MixedStores :
     /\ s[K_c1] = Absent
     /\ s[K_b1s] = Absent
     /\ s[K_a] \in {Absent, Img(1000, 1000)}}

InitRace == Init /\ store \in RaceStores

\* the program on a bucket that another client deletes objects from
SpecRace == InitRace /\ [][NextRace]_vars

(***************************************************************************)
(* The claims.                                                             *)
(***************************************************************************)
\* the scan has reported exhaustion: get_images found no key after the cursor
Exhausted == pc = "finished" /\ why = "exhausted"

\* C1: when the scan reports exhaustion, every key the bucket held from the
\* start has been taken up by main's family loop, whatever runs crashed and
\* were restarted from the persisted cursor on the way.
C1_AtLeastOnce == Exhausted => bucket0 \subseteq handed

\* C2: last_key.txt is removed only after a get_images call found no key
\* after the cursor; a call that ends otherwise (no credentials) leaves it.
C2_CursorDeletedOnlyOnExhaustion ==
  [][(cursorFile # NoKey /\ cursorFile' = NoKey) => why = "exhausted"]_vars

\* where the program goes on with a family, a batch or a store operation
Proceeding ==
  pc \in {"get_images", "while_response", "group", "family", "head_src",
          "download_src", "head_dst", "download_dst", "upload"}

\* C3: once a store operation has failed for want of credentials, the run
\* takes up no further family, fetches no further batch and attempts no
\* further store operation.
C3_NoCredentialsIsFatal == credFailed => ~Proceeding

\* the keys get_images has listed so far
Listed == file_keys \o response.keys

\* C4: with a cursor K persisted, get_images lists only keys strictly after
\* K; after exhaustion the cursor is cleared; and a scan that starts without a
\* cursor lists from the first key of the bucket.
C4_Resumption ==
  /\ (pc = "while_response" /\ cursorFile # NoKey)
       => \A i \in 1..Len(Listed) : LexLess(cursorFile, Listed[i])
  /\ (pc = "done" /\ why = "exhausted") => cursorFile = NoKey
  /\ (pc = "while_response" /\ cursorFile = NoKey /\ Listed # <<>>)
       => Listed[1] = KeysAfter(NoKey)[1]

\* where main works on the batch get_images returned
InBatch ==
  pc \in {"group", "family", "head_src", "download_src", "head_dst",
          "download_dst", "upload", "family_end"}

\* C5: for every batch get_images returns, last_key.txt is written exactly
\* once, with the last key of the batch, after the whole batch was listed and
\* before main takes up any of its keys; the processing of the batch never
\* writes it.
C5_CursorWriteOrdering ==
  /\ [](InBatch => writes = 1 /\ cursorFile = Last(images))
  /\ [][(cursorFile' # cursorFile /\ cursorFile' # NoKey)
          => /\ pc = "while_response" /\ pc' = "group"
             /\ images' = Listed
             /\ cursorFile' = Last(Listed)
             /\ Range(images') \cap handed' = Range(images') \cap handed]_vars

C5_Witness ==
  /\ pc = "family"
  /\ Len(images) >= 2
  /\ writes = 1
  /\ cursorFile = Last(images)
  /\ cursorFile # images[1]

\* C6: a batch returned while the listing reports continuation has at least
\* batch_size keys, a batch exceeds batch_size by less than the page that
\* completed it, and only a batch that ends the listing may be smaller.
C6_BatchSizeSoftBound ==
  pc = "group" =>
    /\ response.truncated => Len(images) >= BatchSize
    /\ Len(images) >= BatchSize => Len(images) - BatchSize < Len(response.keys)
    /\ Len(response.keys) <= PageSize
    /\ Len(images) < BatchSize => ~response.truncated

C6_Witness ==
  /\ pc = "group"
  /\ response.truncated
  /\ Len(images) > BatchSize

\* C7: once a family's base image was published, processing the same
\* variants again uploads nothing for that family.
C7_Idempotence ==
  [][(pc = "upload" /\ outcome' = "uploaded") => <<Family.variants, dst>> \notin pub]_vars

C7_Witness ==
  /\ pc = "family_end"
  /\ outcome = "base_sufficient"
  /\ <<Family.variants, dst>> \in pub

Area(s) == s[1] * s[2]

LongEdge(s) == MaxOf(s[1], s[2])

\* width / height lies in (0.5, 2.0]
InBand(s) == 2 * s[1] > s[2] /\ s[1] <= 2 * s[2]

\* C8: with an existing base measured, upscale_image leaves it alone exactly
\* when its area exceeds the candidate's, or its longer edge is at least 2560
\* and its aspect ratio lies in (0.5, 2.0]; otherwise it goes on to overwrite.
C8_ExistingBaseGuard ==
  ex_size # <<0, 0>> =>
    (outcome = "base_sufficient"
       <=> \/ Area(ex_size) > Area(size)
           \/ LongEdge(ex_size) >= GoodLongEdge /\ InBand(ex_size))

\* C9: a base that exists with an area strictly larger than the candidate's
\* area before upscaling is never overwritten.
C9_NeverRegress ==
  [][(pc = "upload" /\ outcome' = "uploaded")
       => ~(Present(dst) /\ store[dst].w * store[dst].h > Area(size))]_vars

C9_Witness ==
  /\ pc = "family_end"
  /\ outcome = "base_sufficient"
  /\ Area(ex_size) > Area(size)
  /\ LongEdge(ex_size) < GoodLongEdge
  /\ Eligible(size[1], size[2])

\* C10: a decoded source goes on to the upload only if its longer edge is at
\* least 600 and its width/height lies strictly between 0.5 and 2; otherwise
\* upscale_image returns without a store write and without an error.
C10_EligibilityGate ==
  /\ size # <<0, 0>> =>
       IF LongEdge(size) >= 600 /\ 2 * size[1] > size[2] /\ size[1] < 2 * size[2]
       THEN outcome # "gate_failed"
       ELSE pc = "family_end" /\ outcome = "gate_failed"
  /\ (pc = "upload" \/ outcome = "uploaded") => size # <<0, 0>>
  /\ size = <<300, 600>> => outcome = "gate_failed"
  /\ size = <<361, 601>> => outcome # "gate_failed"

C10_Witness ==
  /\ outcome = "uploaded"
  /\ size = <<361, 601>>

\* the image keys of a batch
ImageKeys(keys) == {k \in Range(keys) : IsImageKey(k)}

\* C11: an error that upscale_image raises for a family is caught and logged
\* (the program is then at line 210, not ended); from there main goes on to
\* the next family of the batch, or after the last family to the next
\* get_images; and whenever main asks for the next batch, every image key of
\* the batch before has been taken up by the family loop.
C11_FailureIsolation ==
  /\ [](outcome = "error" => pc = "family_end")
  /\ [][(pc = "family_end" /\ outcome = "error" /\ pc' \notin {"family_end", "idle"})
         => IF fam < Len(images_data)
            THEN pc' = "family" /\ fam' = fam + 1
            ELSE pc' = "get_images"]_vars
  /\ [](pc = "get_images" => ImageKeys(images) \subseteq handed)

\* an earlier family's upscale_image raised NoCredentialsError and main is at
\* a later family of the batch
C11_Witness ==
  /\ pc = "family"
  /\ fam > 1
  /\ credFailed

\* C12: whatever way upscale_image ends (upload, skip, undecodable source or
\* existing base, exception of a store operation), none of its transient
\* local files is left: the downloaded source, the downloaded existing base,
\* the locally saved upscaled image.  Stated for the first run of the
\* program, which no killed process precedes.
C12_TransientFilesRemoved ==
  (runs = 1 /\ pc = "family_end") => files = {}

\* The keys of the form <base>-<W>x<H>.<ext>, ext being jpg or jpeg in any
\* case, each with the base, width and height its name states.
NameOf ==
  (K_c1 :> [base |-> <<"c">>, w |-> 1, h |-> 1])
  @@ (K_a1 :> [base |-> <<"u", "/", "a">>, w |-> 1, h |-> 1])
  @@ (K_a2 :> [base |-> <<"u", "/", "a">>, w |-> 2, h |-> 2])
  @@ (K_b1 :> [base |-> <<"u", "/", "b">>, w |-> 1, h |-> 1])
  @@ (K_cat1 :> [base |-> <<"c", "a", "t">>, w |-> 100, h |-> 100])
  @@ (K_cat3 :> [base |-> <<"c", "a", "t">>, w |-> 300, h |-> 200])
  @@ (K_dog5 :> [base |-> <<"d", "o", "g">>, w |-> 50, h |-> 50])
  @@ (K_dU :> [base |-> <<"u", "/", "d">>, w |-> 1, h |-> 1])
  @@ (K_dM :> [base |-> <<"u", "/", "d">>, w |-> 2, h |-> 3])
  @@ (K_m12 :> [base |-> <<"u", "/", "m", "-", "n">>, w |-> 1, h |-> 2])
  @@ (K_m14 :> [base |-> <<"u", "/", "m", "-", "n">>, w |-> 1, h |-> 4])
  @@ (K_m22 :> [base |-> <<"u", "/", "m", "-", "n">>, w |-> 2, h |-> 2])
  @@ (K_e7 :> [base |-> <<"u", "/", "e">>, w |-> 700, h |-> 700])
  @@ (K_e8 :> [base |-> <<"u", "/", "e">>, w |-> 800, h |-> 800])

\* the area W*H a key's name states, 0 for a key not of that form
NameArea(k) == IF k \in DOMAIN NameOf THEN NameOf[k].w * NameOf[k].h ELSE 0

\* C13: the key main hands to upscale_image for a family is the variant
\* whose name states the largest area W*H among the family's variants of the
\* batch, the first seen of them when several state that area.
C13_SourceSelection ==
  src # NoKey =>
    LET vs == Family.variants
        at == CHOOSE i \in 1..Len(vs) : vs[i] = src
    IN  /\ src \in Range(vs)
        /\ \A j \in 1..Len(vs) :
             /\ NameArea(vs[j]) <= NameArea(src)
             /\ NameArea(vs[j]) = NameArea(src) => at <= j

\* C14: upscale_image is never called with a source key whose size suffix
\* does not parse (area 0), though such a key may be one of the family's
\* variants; and a family all of whose variants have area 0 takes main to
\* the end of the family without any store operation.
C14_UnrankedNeverSource ==
  /\ [](src # NoKey => NameArea(src) # 0 /\ get_image_area(src) # 0)
  /\ [][(pc = "family" /\ \A v \in Range(Family.variants) : get_image_area(v) = 0)
         => /\ pc' \in {"family", "family_end", "idle"}
            /\ store' = store]_vars

\* upscale_image is called for a family one of whose variants has area 0
C14_Witness ==
  /\ pc = "head_src"
  /\ \E v \in Range(Family.variants) : get_image_area(v) = 0

\* the program was first started on the bucket cat-100x100.jpg,
\* cat-300x200.jpg, dog-50x50.jpg
CatDogRun == bucket0 = {K_cat1, K_cat3, K_dog5}

\* C15, as claimed: on that bucket a full run uploads cat.jpg as the 2x
\* upscale, 600x400, of cat-300x200.jpg.
C15_CatUploaded ==
  (CatDogRun /\ pc = "done" /\ why = "exhausted") => store[K_cat] = Img(600, 400)

\* C15, amended: on that bucket upscale_image is called for family cat with
\* cat-300x200.jpg and for family dog with dog-50x50.jpg, each call ends at
\* the eligibility gate unless the credentials are gone, and nothing is ever
\* uploaded: the bucket stays as it was.
C15_CatDogScenario ==
  CatDogRun =>
    /\ store = CatDogStore
    /\ pc = "family" => Family.base \in {<<"c", "a", "t">>, <<"d", "o", "g">>}
    /\ pc = "family_end" =>
         /\ src = IF Family.base = <<"c", "a", "t">> THEN K_cat3 ELSE K_dog5
         /\ dst = IF Family.base = <<"c", "a", "t">> THEN K_cat ELSE K_dog
         /\ outcome = "gate_failed" \/ (outcome = "error" /\ credFailed)

\* on that bucket every key has been taken up and the last call of
\* upscale_image, for dog-50x50.jpg, has ended at the gate
C15_Witness ==
  /\ CatDogRun
  /\ pc = "family_end"
  /\ src = K_dog5
  /\ outcome = "gate_failed"
  /\ handed = {K_cat1, K_cat3, K_dog5}

\* C16: for every key of the form <base>-<W>x<H>.<ext>, ext being jpg or
\* jpeg in any case, get_basename gives exactly <base>, which is the family
\* main files the key under, and get_image_area gives W*H; for every other
\* key get_image_area gives 0.  Stated of the families main has built from
\* the batch at hand.
C16_FilenameConvention ==
  \A i \in 1..Len(images_data) :
    \A k \in Range(images_data[i].variants) :
      IF k \in DOMAIN NameOf
      THEN /\ images_data[i].base = NameOf[k].base
           /\ get_basename(k) = NameOf[k].base
           /\ get_image_area(k) = NameOf[k].w * NameOf[k].h
      ELSE get_image_area(k) = 0

\* what upscale_image has done when it uploads: without an existing base, and
\* with one
UploadTrails ==
  {<<"exists", "downloaded", "decoded", "eligible", "no_base">>,
   <<"exists", "downloaded", "decoded", "eligible", "base_exists",
     "base_insufficient">>}

\* the early returns of upscale_image, each with what the call has done by
\* then
EarlyTrail ==
  ("src_missing" :> <<>>)
  @@ ("corrupt" :> <<"exists", "downloaded">>)
  @@ ("gate_failed" :> <<"exists", "downloaded", "decoded">>)
  @@ ("base_sufficient" :> <<"exists", "downloaded", "decoded", "eligible",
                             "base_exists", "base_sufficient">>)

\* a step of upscale_image itself, the client having its credentials
UpscaleStep == creds /\ pc' \notin {pc, "idle"}

\* C17: upscale_image uploads the base only after it has, in this call and
\* in this order, found the source to exist, downloaded it, decoded it,
\* passed the eligibility gate and found no base or an insufficient one; the
\* upload is the program's only write to the store; and a source missing in
\* the store, an undecodable source, a source failing the gate and a
\* sufficient existing base each end the call by a return, not an exception,
\* before any write.
C17_UploadPreconditions ==
  /\ [](pc = "upload" =>
          /\ trail \in UploadTrails
          /\ LongEdge(size) >= 600 /\ 2 * size[1] > size[2] /\ size[1] < 2 * size[2]
          /\ ex_size # <<0, 0>> =>
               Area(ex_size) <= Area(size) /\ LongEdge(ex_size) < 2560)
  /\ [](outcome = "uploaded" => \E t \in UploadTrails : trail = Append(t, "uploaded"))
  /\ [][store' # store => \/ pc = "upload" /\ outcome' = "uploaded"
                          \/ deletes' # deletes]_vars
  /\ [](outcome \in DOMAIN EarlyTrail =>
          pc = "family_end" /\ trail = EarlyTrail[outcome])
  /\ [][(pc = "head_src" /\ UpscaleStep /\ ~Present(src))
         => outcome' = "src_missing"]_vars
  /\ [][(pc = "download_src" /\ UpscaleStep /\ store[src].kind = "corrupt")
         => outcome' = "corrupt"]_vars
  /\ [][(pc = "download_src" /\ UpscaleStep /\ store[src].kind = "img"
            /\ store[src].w >= 2 * store[src].h)
         => outcome' = "gate_failed"]_vars
  /\ [][(pc = "download_dst" /\ UpscaleStep /\ store[dst].kind = "img"
            /\ store[dst].w * store[dst].h > Area(size))
         => outcome' = "base_sufficient"]_vars

\* an upload over an existing base that was found insufficient
C17_Witness ==
  /\ outcome = "uploaded"
  /\ trail = <<"exists", "downloaded", "decoded", "eligible", "base_exists",
               "base_insufficient", "uploaded">>

\* the first run of the program has scanned the whole bucket and ended, with
\* no store operation having failed
ScanComplete ==
  /\ runs = 1
  /\ pc = "done"
  /\ why = "exhausted"
  /\ ~credFailed

\* C18: after a complete scan without a crash, every base uploaded during
\* the scan is left as derived from the variant that states the largest area
\* among all variants of its family in the bucket, also when the batches
\* split the family.
C18_LargestOverScan ==
  ScanComplete =>
    \A o \in origin :
      \A k \in bucket0 :
        get_basename(k) = get_basename(o[2]) => NameArea(k) <= NameArea(o[2])

\* C19: once a get_images call has found no key, the run ends normally and
\* leaves no last_key.txt, also when the bucket is empty and last_key.txt was
\* never written.  Stated of the step main takes after such a call, the
\* process not being killed.
C19_ScanTerminates ==
  [][(Exhausted /\ pc' \notin {"finished", "idle"})
       => pc' = "done" /\ cursorFile' = NoKey]_vars

\* C20: in every batch, every variant filed under a family has that family's
\* base name, so that variants_without_base is the whole list of variants;
\* base_image_name is never one of the family's variants; hence main calls
\* upscale_image for every family whose largest variant states a nonzero
\* area.
C20_BaseNamedSkipUnreachable ==
  \A i \in 1..Len(images_data) :
    LET f == images_data[i]
    IN  /\ \A v \in Range(f.variants) : get_basename(v) = f.base
        /\ VariantsWithoutBase(f) = f.variants
        /\ BaseImageName(f) \notin Range(f.variants)
        /\ (\E v \in Range(f.variants) : NameArea(v) # 0) => CallsUpscale(f)

====
